---- MODULE Spec2Model ----
(***************************************************************************)
(* Credential gate, client factory, bootstrap and tool handlers of the     *)
(* WebMCP site tools script (webmcp-tools.ts).  One JavaScript macrotask   *)
(* or microtask of the page is one action; time is a millisecond clock     *)
(* that advances between tasks and never past a timer that is due.         *)
(***************************************************************************)
EXTENDS Integers, Sequences, FiniteSets, TLC

\* ------------------------------------------------------------------ bounds
MaxInjects == 2        \* calls of injectAccessTokenFunction by the host
MaxHandlers == 1       \* execute() invocations made by the agent host
MaxTime == 30100       \* horizon of the clock, ms
TickMs == 15000        \* largest advance of the clock between two tasks, ms

\* ------------------------------------------------------- program constants
AUTH_TIMEOUT_MS == 15000
DEFER_MS == 100
NULL_CLIENT == 0
NoTimer == -1
NULL_TOKEN == "<null>"
AUTH_TIMEOUT_MESSAGE == "Auth token not injected within timeout. Make sure the embedded script is configured correctly with injectAccessTokenFunction exported."
NO_ERROR == "<none>"

\* Token values the host may pass: the type is string, the empty one included.
\* The non-empty ones are named in the order the host first uses them.
TokenNames == <<"tokA", "tokB">>
Tokens == {""} \cup {TokenNames[i] : i \in 1..Len(TokenNames)}

\* The callers of waitForAuth: the deferred self-test, the capability
\* detection of bootstrap, and the execute() invocations of the tools
SELFTEST == "selftest"
DETECT == "detect"
HandlerNames == <<"exec1", "exec2", "exec3", "exec4">>
Handlers == {HandlerNames[i] : i \in 1..MaxHandlers}
Procs == {SELFTEST, DETECT} \cup Handlers

VARIABLES
  now,                 \* the clock, ms since the module was evaluated
  wixClient,           \* NULL_CLIENT or the identity of the shared client
  clientsCreated,      \* number of createClient calls so far
  clientToken,         \* token held by the client's access-token injector
  authReady,
  authReadyResolvers,  \* array of the closures pushed by waitForAuth
  pendingAccessToken,
  promise,             \* state of the promise waitForAuth returned to a caller
  timeout,             \* due time of the caller's setTimeout, or NoTimer
  calledAt,            \* when the caller called waitForAuth
  error,               \* message of the rejection
  observed,            \* how often the caller's continuation has run
  firstForwarded,      \* the first token passed to the client's injector
  lastInjected,        \* token of the latest injectAccessTokenFunction call
  firstReadyLast,      \* lastInjected at the first ready transition
  injections,          \* number of injectAccessTokenFunction calls
  minted,              \* number of distinct non-empty tokens used so far
  deferredTimer,       \* the module-level setTimeout(..., 100) is armed
  pc,                  \* position of each caller
  usedClient,          \* client a caller issued its remote call on
  readyAtCall,         \* authReady when the remote call was issued
  result,              \* what the caller finally produced
  outcome,             \* how the try block of the caller ended
  selfTestClient,      \* the client the deferred initializer captured
  hasModelContext,     \* navigator.modelContext is available
  pageContext,         \* flags of detectPageContext
  installedApps,       \* descriptor returned by detectInstalledAppsFromAPI
  registeredTools,     \* names passed to modelContext.registerTool, in order
  toolOf,              \* the tool an execute() invocation belongs to
  params,              \* the options parameter an execute() invocation got
  quantity,            \* the quantity parameter an execute() invocation got
  sent,                \* the remote calls a caller issued, and the quantity in them
  registerFailed,      \* names whose registerTool call threw
  applied,             \* the function last applied on its own: argument, value
  eager,               \* the eager variant of the script, webmcp-ecom.ts
  ev                   \* the task that ran last

gateVars == <<wixClient, clientsCreated, clientToken, authReady,
              authReadyResolvers, pendingAccessToken, promise, timeout,
              calledAt, error, firstForwarded, firstReadyLast>>
vars == <<now, wixClient, clientsCreated, clientToken, authReady,
          authReadyResolvers, pendingAccessToken, promise, timeout,
          calledAt, error, observed, firstForwarded, lastInjected,
          firstReadyLast, injections, deferredTimer, pc, usedClient,
          readyAtCall, result, outcome, selfTestClient, hasModelContext, pageContext,
          installedApps, registeredTools, toolOf, params, quantity, sent,
          registerFailed,
          minted, applied, eager, ev>>

\* ------------------------------------------------------ JavaScript helpers
\* if (x) on a string | null
Truthy(tok) == tok # NULL_TOKEN /\ tok # ""

\* Array.prototype.indexOf: 0-based index of the first strictly equal element
IndexOf(arr, x) ==
  IF \E i \in 1..Len(arr) : arr[i] = x
  THEN (CHOOSE i \in 1..Len(arr) :
          arr[i] = x /\ \A j \in 1..(i - 1) : arr[j] # x) - 1
  ELSE -1

\* Array.prototype.splice(idx, 1): a negative index counts from the end
Splice(arr, idx) ==
  LET start == IF idx < 0
               THEN (IF Len(arr) + idx < 0 THEN 0 ELSE Len(arr) + idx)
               ELSE idx
  IN IF start >= Len(arr) THEN arr
     ELSE SubSeq(arr, 1, start) \o SubSeq(arr, start + 2, Len(arr))

\* The two function objects of one waitForAuth call: the promise's own
\* resolve, and the closure () => { clearTimeout(timeout); resolve(); }
ResolveFn(p) == [fn |-> "resolve", of |-> p]
WrapperFn(p) == [fn |-> "wrapper", of |-> p]

\* The current credential state, packed
Gate ==
  [wixClient |-> wixClient, clientsCreated |-> clientsCreated,
   clientToken |-> clientToken, authReady |-> authReady,
   authReadyResolvers |-> authReadyResolvers,
   pendingAccessToken |-> pendingAccessToken, promise |-> promise,
   timeout |-> timeout, calledAt |-> calledAt,
   error |-> error, firstForwarded |-> firstForwarded,
   firstReadyLast |-> firstReadyLast]

SetGate(g) ==
  /\ wixClient' = g.wixClient
  /\ clientsCreated' = g.clientsCreated
  /\ clientToken' = g.clientToken
  /\ authReady' = g.authReady
  /\ authReadyResolvers' = g.authReadyResolvers
  /\ pendingAccessToken' = g.pendingAccessToken
  /\ promise' = g.promise
  /\ timeout' = g.timeout
  /\ calledAt' = g.calledAt
  /\ error' = g.error
  /\ firstForwarded' = g.firstForwarded
  /\ firstReadyLast' = g.firstReadyLast

\* Variant: resolve and reject act on a promise whatever its state
Settles_Always(g, p) == TRUE

\* resolve() and reject() act on a pending promise only
Settles(g, p) == g.promise[p] = "pending"

\* Variant: only the closure at the head of the array is called
ResolveAll_HeadOnly(g) ==
  LET called == {p \in Procs : Len(g.authReadyResolvers) > 0
                               /\ g.authReadyResolvers[1] = WrapperFn(p)}
      hit == {p \in called : Settles(g, p)}
  IN [g EXCEPT
        !.promise = [p \in Procs |->
                       IF p \in hit THEN "resolved" ELSE g.promise[p]],
        !.timeout = [p \in Procs |->
                       IF p \in called THEN NoTimer ELSE g.timeout[p]]]

\* authReadyResolvers.forEach(resolve => resolve()): every closure clears
\* its timer and resolves its promise, which only a pending promise notices
ResolveAll(g) ==
  LET called == {p \in Procs : \E i \in 1..Len(g.authReadyResolvers) :
                                 g.authReadyResolvers[i] = WrapperFn(p)}
      hit == {p \in called : Settles(g, p)}
  IN [g EXCEPT
        !.promise = [p \in Procs |->
                       IF p \in hit THEN "resolved" ELSE g.promise[p]],
        !.timeout = [p \in Procs |->
                       IF p \in called THEN NoTimer ELSE g.timeout[p]]]

\* injector(token); authReady = true
Forward(g, token, last) ==
  [g EXCEPT !.clientToken = token,
            !.firstForwarded = IF g.clientToken = NULL_TOKEN
                               THEN token ELSE g.firstForwarded,
            !.firstReadyLast = IF g.authReady THEN g.firstReadyLast
                               ELSE last]

\* Variant: the client is built on every call
NeedsClient_Always(client) == TRUE

\* if (!wixClient)
NeedsClient(client) == client = NULL_CLIENT

\* if (pendingAccessToken)
HasPendingToken(tok) == Truthy(tok)

\* Variant: construction marks the gate ready whether or not a token is pending
getWixClient_ReadyOnBuild(g) ==
  IF NeedsClient(g.wixClient)
  THEN LET c == [g EXCEPT !.wixClient = g.clientsCreated + 1,
                          !.clientsCreated = g.clientsCreated + 1,
                          !.clientToken = NULL_TOKEN,
                          !.authReady = TRUE]
       IN IF HasPendingToken(c.pendingAccessToken)
          THEN LET f == Forward(c, c.pendingAccessToken, lastInjected)
               IN [ResolveAll(f) EXCEPT !.authReadyResolvers = <<>>]
          ELSE c
  ELSE g

\* getWixClient()
getWixClient(g) ==
  IF NeedsClient(g.wixClient)
  THEN LET c == [g EXCEPT !.wixClient = g.clientsCreated + 1,
                          !.clientsCreated = g.clientsCreated + 1,
                          !.clientToken = NULL_TOKEN]
       IN IF HasPendingToken(c.pendingAccessToken)
          THEN LET f == [Forward(c, c.pendingAccessToken, lastInjected)
                           EXCEPT !.authReady = TRUE]
               IN [ResolveAll(f) EXCEPT !.authReadyResolvers = <<>>]
          ELSE c
  ELSE g

\* Variant: the timer is armed with the deferral delay
TimeoutDeadline_Short(t) == t + DEFER_MS

\* setTimeout(..., AUTH_TIMEOUT_MS) armed at time t
TimeoutDeadline(t) == t + AUTH_TIMEOUT_MS

\* waitForAuth() called by p at time t
waitForAuth(g, p, t) ==
  IF g.authReady
  THEN [g EXCEPT !.promise[p] = "resolved", !.calledAt[p] = t]
  ELSE [g EXCEPT !.promise[p] = "pending", !.calledAt[p] = t,
                 !.timeout[p] = TimeoutDeadline(t),
                 !.authReadyResolvers = Append(@, WrapperFn(p))]

\* Variant: splice is called without testing the index
SpliceGuard_Missing(idx) == TRUE

\* if (idx >= 0)
SpliceGuard(idx) == idx >= 0

\* Variant: the callback forgets to reject
timeoutCallback_NoReject(g, p) ==
  [g EXCEPT !.timeout[p] = NoTimer]

\* The callback of waitForAuth's setTimeout, for caller p
timeoutCallback(g, p) ==
  LET idx == IndexOf(g.authReadyResolvers, ResolveFn(p))
      arr == IF SpliceGuard(idx) THEN Splice(g.authReadyResolvers, idx)
             ELSE g.authReadyResolvers
      pending == Settles(g, p)
  IN [g EXCEPT !.authReadyResolvers = arr,
               !.timeout[p] = NoTimer,
               !.promise[p] = IF pending THEN "rejected" ELSE @,
               !.error[p] = IF pending THEN AUTH_TIMEOUT_MESSAGE ELSE @]

\* Variant: a token already stored is kept
StorePending_KeepFirst(old, token) == IF old = NULL_TOKEN THEN token ELSE old

\* pendingAccessToken = token
StorePending(old, token) == token

\* Variant: authReady = !!token
ReadyAfterInject_Truthy(token) == Truthy(token)

\* authReady = true, after injector(token)
ReadyAfterInject(token) == TRUE

\* Variant: the closures are called and left in the array
injectAccessTokenFunction_KeepsArray(g, token) ==
  IF g.wixClient = NULL_CLIENT
  THEN [g EXCEPT !.pendingAccessToken = StorePending(@, token)]
  ELSE ResolveAll([Forward(g, token, token) EXCEPT !.authReady = TRUE])

\* injectAccessTokenFunction(token)
injectAccessTokenFunction(g, token) ==
  IF g.wixClient = NULL_CLIENT
  THEN [g EXCEPT !.pendingAccessToken = StorePending(@, token)]
  ELSE LET f == [Forward(g, token, token)
                   EXCEPT !.authReady = ReadyAfterInject(token)]
       IN [ResolveAll(f) EXCEPT !.authReadyResolvers = <<>>]

\* ------------------------------------------------------------ tool catalog
BASELINE_TOOLS == <<"wix_get_site_structure", "wix_get_current_page">>
STORES_TOOLS == <<"wix_search_products", "wix_get_product",
                  "wix_list_products", "wix_add_to_cart", "wix_get_cart",
                  "wix_get_cart_totals">>
NO_APPS == [hasStores |-> FALSE, hasBlog |-> FALSE, hasMembers |-> FALSE]
NO_CONTEXT == [isProductPage |-> FALSE, isCartPage |-> FALSE,
               isBlogPage |-> FALSE, isMemberArea |-> FALSE]
ALL_APPS == [hasStores |-> TRUE, hasBlog |-> TRUE, hasMembers |-> TRUE]
NO_TOOL == "<none>"
NO_OPTIONS == "absent"
NO_QUANTITY == -1
NOTHING_SENT == [calls |-> 0, quantity |-> NO_QUANTITY]
REMOTE_ERROR == "remote call failed"
NOT_FOUND_ERROR == "Request failed with status code 404"
UNAUTHORIZED_ERROR == "Request failed with status code 401"
UNKNOWN_ERROR == "Unknown error"
POST_NOT_FOUND == "Blog post not found"
PRODUCT_NOT_FOUND == "Product not found"
INVALID_OPTIONS == "Invalid options format. Must be valid JSON."
THROWN_TEXT == "404"

\* The result object of an execute() call: success, error, and what the
\* payload holds
NO_RESULT == [kind |-> "none", error |-> NO_ERROR, payload |-> "none"]
Success(payload) == [kind |-> "success", error |-> NO_ERROR, payload |-> payload]
Failure(msg) == [kind |-> "failure", error |-> msg, payload |-> "none"]

\* How an awaited promise settled: with a value, which may lack the item
\* asked for, or with a thrown value, an Error or not, of the given text
Settled(ok, empty, isError, message) ==
  [ok |-> ok, empty |-> empty, isError |-> isError, message |-> message]
NO_OUTCOME == Settled(FALSE, FALSE, FALSE, NO_ERROR)
OUT_VALUE == Settled(TRUE, FALSE, FALSE, NO_ERROR)
OUT_EMPTY == Settled(TRUE, TRUE, FALSE, NO_ERROR)
Thrown(isError, message) == Settled(FALSE, FALSE, isError, message)
GateTimeout == Thrown(TRUE, AUTH_TIMEOUT_MESSAGE)

\* The characters of the messages a catch block may inspect
Chars(m) ==
  CASE m = REMOTE_ERROR ->
    <<"r", "e", "m", "o", "t", "e", " ", "c", "a", "l", "l", " ", "f", "a",
      "i", "l", "e", "d">>
    [] m = NOT_FOUND_ERROR ->
    <<"R", "e", "q", "u", "e", "s", "t", " ", "f", "a", "i", "l", "e", "d",
      " ", "w", "i", "t", "h", " ", "s", "t", "a", "t", "u", "s", " ", "c",
      "o", "d", "e", " ", "4", "0", "4">>
    [] m = UNAUTHORIZED_ERROR ->
    <<"R", "e", "q", "u", "e", "s", "t", " ", "f", "a", "i", "l", "e", "d",
      " ", "w", "i", "t", "h", " ", "s", "t", "a", "t", "u", "s", " ", "c",
      "o", "d", "e", " ", "4", "0", "1">>
    [] m = THROWN_TEXT ->
    <<"4", "0", "4">>
    [] m = AUTH_TIMEOUT_MESSAGE ->
    <<"A", "u", "t", "h", " ", "t", "o", "k", "e", "n", " ", "n", "o", "t",
      " ", "i", "n", "j", "e", "c", "t", "e", "d", " ", "w", "i", "t", "h",
      "i", "n", " ", "t", "i", "m", "e", "o", "u", "t", ".", " ", "M", "a",
      "k", "e", " ", "s", "u", "r", "e", " ", "t", "h", "e", " ", "e", "m",
      "b", "e", "d", "d", "e", "d", " ", "s", "c", "r", "i", "p", "t", " ",
      "i", "s", " ", "c", "o", "n", "f", "i", "g", "u", "r", "e", "d", " ",
      "c", "o", "r", "r", "e", "c", "t", "l", "y", " ", "w", "i", "t", "h",
      " ", "i", "n", "j", "e", "c", "t", "A", "c", "c", "e", "s", "s", "T",
      "o", "k", "e", "n", "F", "u", "n", "c", "t", "i", "o", "n", " ", "e",
      "x", "p", "o", "r", "t", "e", "d", ".">>

\* String.prototype.includes
Includes(s, pat) ==
  \E i \in 1..(Len(s) - Len(pat) + 1) : SubSeq(s, i, i + Len(pat) - 1) = pat

\* The site, the page, the platform's answers, the registry's refusals and
\* the calls of the agent in the runs explored
SiteApps == {ALL_APPS}
SiteContexts == {NO_CONTEXT}
CalledTools == {"wix_get_site_structure", "wix_get_current_page"}
CalledOptions == {NO_OPTIONS}
CalledQuantities == {NO_QUANTITY}
RemoteOutcomes == {OUT_VALUE, Thrown(TRUE, REMOTE_ERROR)}
RegistryRefusals == {{}}

\* Variant: the cart fetch does not call waitForAuth either
UngatedTools_WithCart == {"wix_get_current_page", "wix_get_cart"}

\* Tools whose execute() never calls waitForAuth
UngatedTools == {"wix_get_current_page"}

\* Variant: the single-post tool is registered on blog pages only
SinglePostOffered_BlogPageOnly(ctx) == ctx.isBlogPage

\* if (pageContext.isBlogPage || !pageContext.isProductPage)
SinglePostOffered(ctx) == ctx.isBlogPage \/ ~ctx.isProductPage

\* Variant: the commerce tools are registered whatever the descriptor says
ToolsFor_StoresAlways(apps, ctx) ==
  BASELINE_TOOLS
  \o (IF apps.hasBlog
      THEN <<"wix_get_blog_posts">>
           \o (IF SinglePostOffered(ctx)
               THEN <<"wix_get_blog_post">> ELSE <<>>)
      ELSE <<>>)
  \o (IF apps.hasMembers THEN <<"wix_get_member_info">> ELSE <<>>)
  \o STORES_TOOLS

\* The registerTool calls of initWebMCP, in program order
ToolsFor(apps, ctx) ==
  BASELINE_TOOLS
  \o (IF apps.hasBlog
      THEN <<"wix_get_blog_posts">>
           \o (IF SinglePostOffered(ctx)
               THEN <<"wix_get_blog_post">> ELSE <<>>)
      ELSE <<>>)
  \o (IF apps.hasMembers THEN <<"wix_get_member_info">> ELSE <<>>)
  \o (IF apps.hasStores THEN STORES_TOOLS ELSE <<>>)

Range(seq) == {seq[i] : i \in 1..Len(seq)}

\* Variant: no registerTool call sits in try/catch
Guarded_None(name) == FALSE

\* The registerTool calls that sit in try { ... } catch (err) { log }
Guarded(name) == name \in Range(BASELINE_TOOLS)

\* The registerTool calls for the names of todo, in order, with a registry
\* that throws for the names in bad: a guarded call that throws is skipped,
\* any other throw leaves initWebMCP
RECURSIVE RegisterAll(_, _, _, _)
RegisterAll(todo, bad, done, failed) ==
  IF todo = <<>>
  THEN [tools |-> done, failed |-> failed, threw |-> FALSE]
  ELSE LET name == Head(todo)
       IN IF name \notin bad
          THEN RegisterAll(Tail(todo), bad, Append(done, name), failed)
          ELSE IF Guarded(name)
          THEN RegisterAll(Tail(todo), bad, done, failed \cup {name})
          ELSE [tools |-> done, failed |-> failed \cup {name}, threw |-> TRUE]

\* Variant: the catch block reports every app as installed
DetectionFallback_AllApps == ALL_APPS

\* catch (error) of detectInstalledAppsFromAPI: the all-false descriptor
DetectionFallback == NO_APPS

\* Variant: a detection that failed counts every app as installed
DetectedApps_Optimistic(out, apps) == IF out.ok THEN apps ELSE ALL_APPS

\* What detectInstalledAppsFromAPI returns for an outcome of its try block
DetectedApps(out, apps) == IF out.ok THEN apps ELSE DetectionFallback

\* error instanceof Error && error.message.includes(code)
Signals(e, code) == e.isError /\ Includes(Chars(e.message), code)

\* Tools whose catch block reports String(error) for a non-Error value
StringifyingTools == {"wix_search_products", "wix_get_product", "wix_list_products"}

\* Variant: a value that is no Error yields no message
ErrorText_ErrorsOnly(tool, e) == IF e.isError THEN e.message ELSE NO_ERROR

\* error instanceof Error ? error.message : String(error) | 'Unknown error'
ErrorText(tool, e) ==
  IF e.isError THEN e.message
  ELSE IF tool \in StringifyingTools THEN e.message ELSE UNKNOWN_ERROR

\* Variant: only the cart fetch reinterprets a "404"
NotFoundAsEmpty_CartOnly == {"wix_get_cart"}

\* Tools whose catch block turns a "404" into an empty result
NotFoundAsEmpty == {"wix_get_cart", "wix_get_cart_totals"}

\* Variant: the catch block reports every failure as an empty success
Catch_Swallow(tool, e) == Success("data")

\* The catch block of a tool's execute(), for the thrown value e
Catch(tool, e) ==
  IF tool = "wix_get_member_info"
     /\ (Signals(e, <<"4", "0", "1">>) \/ Signals(e, <<"4", "0", "3">>))
  THEN Success("loggedOut")
  ELSE IF tool \in NotFoundAsEmpty /\ Signals(e, <<"4", "0", "4">>)
  THEN Success(IF tool = "wix_get_cart" THEN "emptyCart" ELSE "zeroTotals")
  ELSE Failure(ErrorText(tool, e))

\* Variant: a response without the item is returned as a success
OnValue_EmptyIsSuccess(tool, out) ==
  IF tool = "wix_get_member_info" /\ out.empty THEN Success("loggedOut")
  ELSE IF tool = "wix_get_cart" /\ out.empty THEN Success("emptyCart")
  ELSE Success("data")

\* The rest of a tool's try block once its remote call returned a value
OnValue(tool, out) ==
  IF tool = "wix_get_blog_post" /\ out.empty THEN Failure(POST_NOT_FOUND)
  ELSE IF tool = "wix_get_product" /\ out.empty THEN Failure(PRODUCT_NOT_FOUND)
  ELSE IF tool = "wix_get_member_info" /\ out.empty THEN Success("loggedOut")
  ELSE IF tool = "wix_get_cart" /\ out.empty THEN Success("emptyCart")
  ELSE Success("data")

\* What execute() of tool returns for an outcome of its remote call
ToolResult(tool, out) == IF out.ok THEN OnValue(tool, out) ELSE Catch(tool, out)

\* No function has been applied on its own
NO_CALL == [fn |-> "none"]

\* The eager variant before the browser evaluates it: evaluatedAt is
\* document.readyState at evaluation, listening tells that initWebMCP waits
\* for DOMContentLoaded, init is the position of initWebMCP, window is
\* window.injectAccessTokenFunction, exported the module's export of that
\* name, token what the client's injector was last given, tools the names
\* registered
NOT_LOADED ==
  [evaluatedAt |-> "-", listening |-> FALSE, init |-> "idle",
   window |-> "undefined", exported |-> "unset", token |-> NULL_TOKEN,
   injections |-> 0, tools |-> <<>>]

\* -------------------------------------------------------------------- Init
Init ==
  /\ now = 0
  /\ wixClient = NULL_CLIENT
  /\ clientsCreated = 0
  /\ clientToken = NULL_TOKEN
  /\ authReady = FALSE
  /\ authReadyResolvers = <<>>
  /\ pendingAccessToken = NULL_TOKEN
  /\ promise = [p \in Procs |-> "none"]
  /\ timeout = [p \in Procs |-> NoTimer]
  /\ calledAt = [p \in Procs |-> NoTimer]
  /\ error = [p \in Procs |-> NO_ERROR]
  /\ observed = [p \in Procs |-> 0]
  /\ firstForwarded = NULL_TOKEN
  /\ lastInjected = NULL_TOKEN
  /\ firstReadyLast = NULL_TOKEN
  /\ injections = 0
  /\ minted = 0
  /\ deferredTimer = TRUE
  /\ pc = [p \in Procs |-> "idle"]
  /\ usedClient = [p \in Procs |-> NULL_CLIENT]
  /\ readyAtCall = [p \in Procs |-> FALSE]
  /\ result = [p \in Procs |-> NO_RESULT]
  /\ outcome = [p \in Procs |-> NO_OUTCOME]
  /\ selfTestClient = NULL_CLIENT
  /\ hasModelContext \in BOOLEAN
  /\ pageContext = NO_CONTEXT
  /\ installedApps = NO_APPS
  /\ registeredTools = <<>>
  /\ toolOf = [h \in Handlers |-> NO_TOOL]
  /\ params = [h \in Handlers |-> NO_OPTIONS]
  /\ quantity = [h \in Handlers |-> NO_QUANTITY]
  /\ sent = [p \in Procs |-> NOTHING_SENT]
  /\ registerFailed = {}
  /\ applied = NO_CALL
  /\ eager = NOT_LOADED
  /\ ev = [op |-> "other", who |-> "-", token |-> NULL_TOKEN,
           hadClient |-> FALSE, released |-> {}]

\* Callers a step released: pending before, resolved after
Released(g) == {p \in Procs : promise[p] = "pending" /\ g.promise[p] = "resolved"}

GateOps == {"inject", "timeout", "resume", "deferredInit"}

\* ev names the gate operation a task performed and its caller; tasks that
\* perform none are recorded alike
Event(op, who, token, g) ==
  ev' = [op |-> IF op \in GateOps THEN op ELSE "other",
         who |-> IF op \in GateOps THEN who ELSE "-", token |-> token,
         hadClient |-> wixClient # NULL_CLIENT, released |-> Released(g)]

\* A waitForAuth timer armed now still fits under the clock's horizon
CanArm == now + AUTH_TIMEOUT_MS <= MaxTime

toolVars == <<hasModelContext, pageContext, installedApps, registeredTools,
              toolOf, params, quantity, registerFailed>>
hostVars == <<lastInjected, injections, minted>>
callVars == <<usedClient, readyAtCall, result, outcome, sent>>
\* What is explored apart from the gate and the bootstrap of this script
apartVars == <<applied, eager>>

\* ------------------------------------------------------------------ actions
\* The host calls the exported injectAccessTokenFunction(token)
Inject(token) ==
  /\ injections < MaxInjects
  /\ \E i \in 0..Len(TokenNames) :
       /\ token = (IF i = 0 THEN "" ELSE TokenNames[i])
       /\ i <= minted + 1
       /\ minted' = IF i > minted THEN i ELSE minted
  /\ LET g == injectAccessTokenFunction(Gate, token)
     IN SetGate(g) /\ Event("inject", "host", token, g)
  /\ injections' = injections + 1
  /\ lastInjected' = token
  /\ UNCHANGED <<now, observed, deferredTimer, pc, callVars, selfTestClient, toolVars>>
  /\ UNCHANGED apartVars

\* The module-level setTimeout(..., 100) fires: getWixClient(), then
\* waitForAuth().then(...)
DeferredInit ==
  /\ deferredTimer /\ now >= DEFER_MS
  /\ pc[SELFTEST] = "idle"
  /\ LET c == getWixClient(Gate)
         g == waitForAuth(c, SELFTEST, now)
     IN /\ SetGate(g)
        /\ selfTestClient' = c.wixClient
        /\ Event("deferredInit", SELFTEST, NULL_TOKEN, c)
  /\ deferredTimer' = FALSE
  /\ pc' = [pc EXCEPT ![SELFTEST] = "waiting"]
  /\ UNCHANGED <<now, observed, hostVars, callVars, toolVars>>
  /\ UNCHANGED apartVars

\* The timer of p's waitForAuth call fires
Timeout(p) ==
  /\ timeout[p] # NoTimer /\ now >= timeout[p]
  /\ LET g == timeoutCallback(Gate, p)
     IN SetGate(g) /\ Event("timeout", p, NULL_TOKEN, g)
  /\ UNCHANGED <<now, observed, hostVars, deferredTimer, pc, callVars,
                 selfTestClient, toolVars>>
  /\ UNCHANGED apartVars

\* Variant: the listener is added and initWebMCP is called as well
BootstrapPending_Twice(st) == st \in {"idle", "done"}

\* if (document.readyState === 'loading') addEventListener(...) else
\* initWebMCP(): one call is due until it has been made
BootstrapPending(st) == st = "idle"

\* initWebMCP() starts, at module evaluation or on DOMContentLoaded: without
\* navigator.modelContext it returns, otherwise detectInstalledAppsFromAPI()
\* runs up to its await waitForAuth()
InitWebMCP ==
  /\ BootstrapPending(pc[DETECT])
  /\ IF ~hasModelContext
     THEN /\ pc' = [pc EXCEPT ![DETECT] = "unsupported"]
          /\ Event("initWebMCP", DETECT, NULL_TOKEN, Gate)
          /\ UNCHANGED gateVars
     ELSE /\ CanArm
          /\ LET g == waitForAuth(Gate, DETECT, now)
             IN SetGate(g) /\ Event("initWebMCP", DETECT, NULL_TOKEN, g)
          /\ pc' = [pc EXCEPT ![DETECT] = "waiting"]
  /\ UNCHANGED <<now, observed, hostVars, deferredTimer, callVars,
                 selfTestClient, toolVars>>
  /\ UNCHANGED apartVars

\* Tools whose handler distinguishes a response that lacks the item
EmptyAware == {"wix_get_blog_post", "wix_get_product", "wix_get_member_info",
               "wix_get_cart"}

\* The agent host calls execute() of a registered tool
Execute(h, tool, options, amount) ==
  /\ pc[h] = "idle"
  /\ \A i \in 1..MaxHandlers :
       HandlerNames[i] = h => \A j \in 1..(i - 1) : pc[HandlerNames[j]] # "idle"
  /\ tool \in Range(registeredTools)
  /\ options # NO_OPTIONS \/ amount # NO_QUANTITY => tool = "wix_add_to_cart"
  /\ toolOf' = [toolOf EXCEPT ![h] = tool]
  /\ params' = [params EXCEPT ![h] = options]
  /\ quantity' = [quantity EXCEPT ![h] = amount]
  /\ IF tool \in UngatedTools
     THEN /\ pc' = [pc EXCEPT ![h] = "done"]
          /\ result' = [result EXCEPT ![h] = Success("data")]
          /\ Event("execute", h, NULL_TOKEN, Gate)
          /\ UNCHANGED gateVars
     ELSE /\ CanArm
          /\ LET g == waitForAuth(Gate, h, now)
             IN SetGate(g) /\ Event("execute", h, NULL_TOKEN, g)
          /\ pc' = [pc EXCEPT ![h] = "waiting"]
          /\ UNCHANGED result
  /\ UNCHANGED <<now, observed, hostVars, deferredTimer, usedClient,
                 readyAtCall, outcome, sent, selfTestClient, hasModelContext,
                 pageContext, installedApps, registeredTools, registerFailed>>
  /\ UNCHANGED apartVars

\* Variant: the continuation does not wait for the promise to settle
Awaited_NoWait(st) == st \in {"pending", "resolved"}

\* await waitForAuth(): the continuation runs once the promise is resolved
Awaited(st) == st = "resolved"

\* if (optionsStr) { try { variantOptions = JSON.parse(optionsStr) } catch
\* { return ... } }: options is absent, the empty text "", "json" for a text
\* JSON.parse accepts or "malformed" for a non-empty text it throws on
RejectsOptions(p) ==
  /\ p \in Handlers /\ toolOf[p] = "wix_add_to_cart"
  /\ params[p] \notin {NO_OPTIONS, ""}
  /\ params[p] # "json"

\* Variant: the quantity is passed on as it came
Quantity_AsGiven(amount) == amount

\* (params.quantity as number) || 1
Quantity(amount) == IF amount \in {NO_QUANTITY, 0} THEN 1 ELSE amount

\* The remote call p issues, counted, with the quantity of its line item
Sending(p) ==
  [calls |-> sent[p].calls + 1,
   quantity |-> IF p \in Handlers /\ toolOf[p] = "wix_add_to_cart"
                THEN Quantity(quantity[p]) ELSE NO_QUANTITY]

\* The continuation after p's waitForAuth resolved: the remote call is issued,
\* by the self-test on the client it captured, by the others on getWixClient();
\* wix_add_to_cart returns before it when its options do not parse
Resume(p) ==
  /\ pc[p] = "waiting" /\ Awaited(promise[p])
  /\ observed' = [observed EXCEPT ![p] = @ + 1]
  /\ IF p = SELFTEST
     THEN /\ pc' = [pc EXCEPT ![p] = "calling"]
          /\ usedClient' = [usedClient EXCEPT ![p] = selfTestClient]
          /\ readyAtCall' = [readyAtCall EXCEPT ![p] = authReady]
          /\ sent' = [sent EXCEPT ![p] = Sending(p)]
          /\ Event("resume", p, NULL_TOKEN, Gate)
          /\ UNCHANGED <<gateVars, result>>
     ELSE IF RejectsOptions(p)
     THEN /\ pc' = [pc EXCEPT ![p] = "done"]
          /\ result' = [result EXCEPT ![p] = Failure(INVALID_OPTIONS)]
          /\ Event("resume", p, NULL_TOKEN, Gate)
          /\ UNCHANGED <<gateVars, usedClient, readyAtCall, sent>>
     ELSE LET g == getWixClient(Gate)
          IN /\ pc' = [pc EXCEPT ![p] = "calling"]
             /\ SetGate(g)
             /\ usedClient' = [usedClient EXCEPT ![p] = g.wixClient]
             /\ readyAtCall' = [readyAtCall EXCEPT ![p] = g.authReady]
             /\ sent' = [sent EXCEPT ![p] = Sending(p)]
             /\ Event("resume", p, NULL_TOKEN, g)
             /\ UNCHANGED result
  /\ UNCHANGED <<now, hostVars, deferredTimer, outcome, selfTestClient, toolVars>>
  /\ UNCHANGED apartVars

\* The rest of initWebMCP once detection returned found: detectPageContext()
\* and the registerTool calls, in one task
Register(found, ctx, bad) ==
  LET reg == RegisterAll(ToolsFor(found, ctx), bad, <<>>, {})
  IN /\ installedApps' = found
     /\ pageContext' = ctx
     /\ registeredTools' = registeredTools \o reg.tools
     /\ registerFailed' = registerFailed \cup reg.failed
     /\ pc' = [pc EXCEPT ![DETECT] = IF reg.threw THEN "threw" ELSE "done"]

\* The continuation after p's waitForAuth rejected, for the self-test, which
\* attached no rejection handler, and for a tool handler, which runs its
\* catch block
Rejected(p) ==
  /\ p # DETECT
  /\ pc[p] = "waiting" /\ promise[p] = "rejected"
  /\ Event("rejected", p, NULL_TOKEN, Gate)
  /\ IF p = SELFTEST
     THEN /\ pc' = [pc EXCEPT ![p] = "unhandled"]
          /\ result' = [result EXCEPT ![p] = [kind |-> "unhandled",
                                              error |-> error[p],
                                              payload |-> "none"]]
          /\ UNCHANGED outcome
     ELSE /\ pc' = [pc EXCEPT ![p] = "done"]
          /\ result' = [result EXCEPT ![p] = Catch(toolOf[p], Thrown(TRUE, error[p]))]
          /\ outcome' = [outcome EXCEPT ![p] = Thrown(TRUE, error[p])]
  /\ UNCHANGED <<now, gateVars, observed, hostVars, deferredTimer, usedClient,
                 readyAtCall, sent, selfTestClient, toolVars>>
  /\ UNCHANGED apartVars

\* The continuation after detection's waitForAuth rejected: the catch block
\* returns the all-false descriptor and initWebMCP registers the tools
DetectionRejected(ctx, bad) ==
  /\ pc[DETECT] = "waiting" /\ promise[DETECT] = "rejected"
  /\ Event("rejected", DETECT, NULL_TOKEN, Gate)
  /\ Register(DetectedApps(Thrown(TRUE, error[DETECT]), NO_APPS), ctx, bad)
  /\ result' = [result EXCEPT ![DETECT] = Failure(error[DETECT])]
  /\ outcome' = [outcome EXCEPT ![DETECT] = Thrown(TRUE, error[DETECT])]
  /\ UNCHANGED <<now, gateVars, observed, hostVars, deferredTimer, usedClient,
                 readyAtCall, sent, selfTestClient, hasModelContext, toolOf,
                 params, quantity>>
  /\ UNCHANGED apartVars

\* The remote call of the self-test or of a tool handler settles
RemoteReturns(p, out) ==
  /\ p # DETECT
  /\ pc[p] = "calling"
  /\ out.empty => p \in Handlers /\ toolOf[p] \in EmptyAware
  /\ Event("remoteReturns", p, NULL_TOKEN, Gate)
  /\ pc' = [pc EXCEPT ![p] = "done"]
  /\ IF p = SELFTEST
     THEN UNCHANGED <<result, outcome>>
     ELSE /\ result' = [result EXCEPT ![p] = ToolResult(toolOf[p], out)]
          /\ outcome' = [outcome EXCEPT ![p] = out]
  /\ UNCHANGED <<now, gateVars, observed, hostVars, deferredTimer, usedClient,
                 readyAtCall, sent, selfTestClient, toolVars>>
  /\ UNCHANGED apartVars

\* The site-structure query of detection settles: detection derives the
\* descriptor, or falls back, and initWebMCP registers the tools
DetectionReturns(out, apps, ctx, bad) ==
  /\ pc[DETECT] = "calling"
  /\ ~out.empty
  /\ Event("remoteReturns", DETECT, NULL_TOKEN, Gate)
  /\ Register(DetectedApps(out, apps), ctx, bad)
  /\ result' = [result EXCEPT ![DETECT] =
                  IF out.ok THEN Success("data") ELSE Failure(out.message)]
  /\ outcome' = [outcome EXCEPT ![DETECT] = out]
  /\ UNCHANGED <<now, gateVars, observed, hostVars, deferredTimer, usedClient,
                 readyAtCall, sent, selfTestClient, hasModelContext, toolOf,
                 params, quantity>>
  /\ UNCHANGED apartVars

\* Due times of the armed timers
Due ==
  {timeout[p] : p \in {q \in Procs : timeout[q] # NoTimer}}
  \cup (IF deferredTimer THEN {DEFER_MS} ELSE {})

Earliest(S) == CHOOSE x \in S : \A y \in S : x <= y

\* Time passes, up to the next due timer
Tick ==
  /\ LET target == Earliest({now + TickMs} \cup Due)
     IN /\ target > now
        /\ target <= MaxTime
        /\ now' = target
  /\ ev' = [op |-> "other", who |-> "-", token |-> NULL_TOKEN,
            hadClient |-> wixClient # NULL_CLIENT, released |-> {}]
  /\ UNCHANGED <<gateVars, observed, hostVars, deferredTimer, pc, callVars,
                 selfTestClient, toolVars>>
  /\ UNCHANGED apartVars

Next ==
  \/ \E token \in Tokens : Inject(token)
  \/ DeferredInit
  \/ InitWebMCP
  \/ \E p \in Procs : Timeout(p)
  \/ \E h \in Handlers, tool \in CalledTools, options \in CalledOptions,
        amount \in CalledQuantities :
       Execute(h, tool, options, amount)
  \/ \E p \in Procs : Resume(p)
  \/ \E p \in Procs : Rejected(p)
  \/ \E ctx \in SiteContexts, bad \in RegistryRefusals :
       DetectionRejected(ctx, bad)
  \/ \E p \in Procs, out \in RemoteOutcomes : RemoteReturns(p, out)
  \/ \E out \in RemoteOutcomes, apps \in SiteApps, ctx \in SiteContexts,
        bad \in RegistryRefusals :
       DetectionReturns(out, apps, ctx, bad)
  \/ Tick

Spec == Init /\ [][Next]_vars

\* The event loop keeps running the page's own tasks: the clock advances,
\* timers fire when due, settled promises run their continuations.  Nothing
\* obliges the host to inject, the agent to call a tool or the platform to
\* answer.
PageTask ==
  \/ Tick
  \/ DeferredInit
  \/ \E p \in Procs : Timeout(p)
  \/ \E p \in Procs : Resume(p)
  \/ \E p \in Procs : Rejected(p)
  \/ \E ctx \in SiteContexts, bad \in RegistryRefusals :
       DetectionRejected(ctx, bad)

FairSpec == Spec /\ WF_vars(PageTask)

\* ------------------------------------------------ bootstrap, explored wide
\* Every descriptor detection can return, the pages that differ in what
\* initWebMCP reads of the context, every kind of answer to the
\* site-structure query and a registry that refuses names already taken.
\* The agent calls no tool; the host injects the empty token or one other.
PRODUCT_PAGE == [NO_CONTEXT EXCEPT !.isProductPage = TRUE]
BLOG_PRODUCT_PAGE == [NO_CONTEXT EXCEPT !.isProductPage = TRUE, !.isBlogPage = TRUE]
BootApps == [hasStores : BOOLEAN, hasBlog : BOOLEAN, hasMembers : BOOLEAN]
BootContexts == {NO_CONTEXT, PRODUCT_PAGE, BLOG_PRODUCT_PAGE}
BootOutcomes == {OUT_VALUE, Thrown(TRUE, REMOTE_ERROR), Thrown(FALSE, THROWN_TEXT)}
BootRefusals == {{}, {"wix_get_site_structure"}, {"wix_get_current_page"},
                 {"wix_get_blog_post"}}

BootTokens == {"", "tokA"}

BootNext ==
  \/ \E token \in BootTokens : Inject(token)
  \/ DeferredInit
  \/ InitWebMCP
  \/ \E p \in Procs : Timeout(p)
  \/ \E p \in Procs : Resume(p)
  \/ \E p \in Procs : Rejected(p)
  \/ \E ctx \in BootContexts, bad \in BootRefusals : DetectionRejected(ctx, bad)
  \/ \E p \in Procs, out \in RemoteOutcomes : RemoteReturns(p, out)
  \/ \E out \in BootOutcomes, apps \in BootApps, ctx \in BootContexts,
        bad \in BootRefusals :
       DetectionReturns(out, apps, ctx, bad)
  \/ Tick

BootSpec == Init /\ [][BootNext]_vars

\* The page's own tasks and the settling of the site-structure query: the
\* platform answers or fails, it does not leave the query open for ever.
\* The continuations of detection are named with one input each: all of them
\* are enabled together and taking any of them disables the others.
BootTask ==
  \/ Tick
  \/ DeferredInit
  \/ \E p \in Procs : Timeout(p)
  \/ \E p \in Procs : Resume(p)
  \/ \E p \in Procs : Rejected(p)
  \/ DetectionRejected(NO_CONTEXT, {})
  \/ DetectionReturns(OUT_VALUE, NO_APPS, NO_CONTEXT, {})

BootFairSpec == BootSpec /\ WF_vars(BootTask)

\* ----------------------------------------------- tool handlers, explored wide
\* A site with every app, so that every tool is registered; every tool
\* called, with every kind of options and every kind of answer.  The host
\* injects one kind of token and the agent makes one call; calls that
\* overlap are explored under Spec.
ToolNames == Range(ToolsFor(ALL_APPS, NO_CONTEXT))
ToolOptions == {NO_OPTIONS, "", "json", "malformed"}
ToolQuantities == {NO_QUANTITY, 0, 2}
ToolOutcomes == {OUT_VALUE, OUT_EMPTY, Thrown(TRUE, REMOTE_ERROR),
                 Thrown(TRUE, NOT_FOUND_ERROR), Thrown(TRUE, UNAUTHORIZED_ERROR),
                 Thrown(FALSE, THROWN_TEXT)}
ToolTokens == {"tokA"}
ToolCallers == {HandlerNames[1]}

ToolNext ==
  \/ \E token \in ToolTokens : Inject(token)
  \/ DeferredInit
  \/ InitWebMCP
  \/ \E p \in Procs : Timeout(p)
  \/ \E h \in ToolCallers, tool \in ToolNames, options \in ToolOptions,
        amount \in ToolQuantities :
       Execute(h, tool, options, amount)
  \/ \E p \in Procs : Resume(p)
  \/ \E p \in Procs : Rejected(p)
  \/ \E ctx \in SiteContexts, bad \in RegistryRefusals :
       DetectionRejected(ctx, bad)
  \/ \E p \in Procs, out \in ToolOutcomes : RemoteReturns(p, out)
  \/ \E out \in RemoteOutcomes, apps \in SiteApps, ctx \in SiteContexts,
        bad \in RegistryRefusals :
       DetectionReturns(out, apps, ctx, bad)
  \/ Tick

ToolSpec == Init /\ [][ToolNext]_vars

\* ============================================ functions applied on their own
\* The parts of the script that compute a value from what they are given:
\* each is applied once to an argument drawn from a bounded set and leaves
\* the gate, the bootstrap and the handlers where they are.
MaxPrefixes == 2       \* prefixes in a site-structure response
MaxLimit == 101        \* largest limit a list tool is asked for

WIX_STORES_APP_ID == "1380b703-ce81-ff05-f115-39571d94dfcd"
WIX_BLOG_APP_ID == "14bcded7-0066-7c35-14d7-466cb3f09103"
WIX_MEMBERS_APP_ID == "14cc59bc-f0b7-15b8-e1c7-89ce41d0e0c9"

\* Variant: the prefix is compared as it is written
Lower_AsWritten(c) == c

\* One character of String.prototype.toLowerCase
Lower(c) ==
  CASE c = "A" -> "a" [] c = "B" -> "b" [] c = "C" -> "c" [] c = "D" -> "d"
      [] c = "E" -> "e" [] c = "F" -> "f" [] c = "G" -> "g"
      [] c = "H" -> "h" [] c = "I" -> "i" [] c = "J" -> "j"
      [] c = "K" -> "k" [] c = "L" -> "l" [] c = "M" -> "m"
      [] c = "N" -> "n" [] c = "O" -> "o" [] c = "P" -> "p"
      [] c = "Q" -> "q" [] c = "R" -> "r" [] c = "S" -> "s"
      [] c = "T" -> "t" [] c = "U" -> "u" [] c = "V" -> "v"
      [] c = "W" -> "w" [] c = "X" -> "x" [] c = "Y" -> "y"
      [] c = "Z" -> "z"
       [] OTHER -> c

ToLowerCase(str) == [i \in 1..Len(str) |-> Lower(str[i])]

\* detectInstalledAppsFromAPI, from the answer of getSiteStructure() on: pages
\* lists the applicationId of each page ("" when it has none), prefixes the
\* prefix of each entry (<<>> when it has none or an empty one), hasPrefixes
\* tells whether the answer carries prefixes at all
InstalledAppsOf(structure) ==
  LET appIds == {structure.pages[i] : i \in 1..Len(structure.pages)} \ {""}
      prefixes == IF structure.hasPrefixes THEN structure.prefixes ELSE <<>>
      prefixPaths == [i \in 1..Len(prefixes) |-> ToLowerCase(prefixes[i])]
      Some(keywords) ==
        \E i \in 1..Len(prefixPaths) :
          \E k \in keywords : Includes(prefixPaths[i], k)
  IN [hasStores |-> \/ WIX_STORES_APP_ID \in appIds
                    \/ Some({<<"p", "r", "o", "d", "u", "c", "t">>,
                              <<"s", "h", "o", "p">>,
                              <<"s", "t", "o", "r", "e">>,
                              <<"c", "a", "r", "t">>}),
      hasBlog |-> \/ WIX_BLOG_APP_ID \in appIds
                  \/ Some({<<"b", "l", "o", "g">>,
                            <<"p", "o", "s", "t">>}),
      hasMembers |-> \/ WIX_MEMBERS_APP_ID \in appIds
                     \/ Some({<<"a", "c", "c", "o", "u", "n", "t">>,
                               <<"m", "e", "m", "b", "e", "r">>,
                               <<"p", "r", "o", "f", "i", "l", "e">>})]

\* The answers of getSiteStructure() explored: pages of the three apps, of an
\* app the script does not know, of the stores app with its identifier in
\* upper case and without an app; prefixes that spell a keyword in either
\* case, inside a longer word or not at all
Structures ==
  LET pageLists == {<<>>, <<"">>, <<WIX_STORES_APP_ID>>, <<WIX_BLOG_APP_ID>>,
                    <<"", WIX_MEMBERS_APP_ID>>,
                    <<"1380B703-CE81-FF05-F115-39571D94DFCD">>,
                    <<"116cabf2-b8ab-4168-8d5b-6e74a6283923", WIX_BLOG_APP_ID>>,
                    <<WIX_MEMBERS_APP_ID, WIX_STORES_APP_ID, WIX_BLOG_APP_ID>>}
      prefixStrings == {<<"/", "s", "h", "o", "p", "-", "n", "o", "w">>,
                        <<"/", "S", "t", "o", "r", "e">>,
                        <<"/", "P", "R", "O", "D", "U", "C", "T", "S">>,
                        <<"/", "c", "a", "r", "t">>,
                        <<"/", "B", "l", "o", "g">>,
                        <<"/", "p", "o", "s", "t">>,
                        <<"/", "m", "y", "-", "a", "c", "c", "o", "u", "n", "t">>,
                        <<"/", "M", "e", "m", "b", "e", "r", "s">>,
                        <<"/", "p", "r", "o", "f", "i", "l", "e">>,
                        <<"/", "a", "b", "o", "u", "t">>,
                        <<>>}
      prefixLists == UNION {[1..n -> prefixStrings] : n \in 0..MaxPrefixes}
  IN [pages : pageLists, hasPrefixes : {TRUE}, prefixes : prefixLists]
     \cup [pages : pageLists, hasPrefixes : {FALSE}, prefixes : {<<>>}]

programVars == <<now, gateVars, observed, hostVars, deferredTimer, pc, callVars,
                 selfTestClient, toolVars, ev>>

\* detectInstalledAppsFromAPI derives the descriptor from an answer
DetectInstalledApps(structure) ==
  /\ applied = NO_CALL
  /\ applied' = [fn |-> "detectInstalledAppsFromAPI", arg |-> structure,
                 value |-> InstalledAppsOf(structure)]
  /\ UNCHANGED <<programVars, eager>>

\* document.querySelector(selector) !== null, for any of the selectors
HasHook_Never(location, selectors) == FALSE

HasHook(location, selectors) == location.hooks \cap selectors # {}

\* detectPageContext: pathname is window.location.pathname, hooks the
\* selectors among those it queries that match an element of the document
PageContextOf(location) ==
  LET pathname == ToLowerCase(location.pathname)
      In(pattern) == Includes(pathname, pattern)
  IN [isProductPage |-> \/ In(<<"/", "p", "r", "o", "d", "u", "c", "t", "/">>)
                        \/ In(<<"/", "p", "r", "o", "d", "u", "c", "t", "-", "p", "a", "g", "e", "/">>)
                        \/ HasHook(location, {"[data-hook=product-page]"})
                        \/ HasHook(location, {".product-page"}),
      isCartPage |-> \/ In(<<"/", "c", "a", "r", "t">>)
                     \/ In(<<"/", "c", "h", "e", "c", "k", "o", "u", "t">>)
                     \/ HasHook(location, {"[data-hook=cart-page]"}),
      isBlogPage |-> \/ In(<<"/", "b", "l", "o", "g">>)
                     \/ In(<<"/", "p", "o", "s", "t", "/">>)
                     \/ HasHook(location, {"[data-hook=blog-post]"})
                     \/ HasHook(location, {".blog-post-page"}),
      isMemberArea |-> \/ In(<<"/", "a", "c", "c", "o", "u", "n", "t">>)
                       \/ In(<<"/", "m", "y", "-", "a", "c", "c", "o", "u", "n", "t">>)
                       \/ In(<<"/", "m", "e", "m", "b", "e", "r", "s">>)
                       \/ In(<<"/", "p", "r", "o", "f", "i", "l", "e">>)]

\* The pages explored: paths that spell a pattern in either case, paths that
\* miss its closing slash, a path that spells several; any of the hooks
Locations ==
  [pathname : {<<"/">>,
               <<"/", "p", "r", "o", "d", "u", "c", "t", "/", "w", "i", "d", "g", "e", "t", "-", "1", "2", "3">>,
               <<"/", "P", "r", "o", "d", "u", "c", "t", "-", "P", "a", "g", "e", "/", "m", "u", "g">>,
               <<"/", "p", "r", "o", "d", "u", "c", "t", "s">>,
               <<"/", "c", "a", "r", "t">>,
               <<"/", "C", "h", "e", "c", "k", "o", "u", "t">>,
               <<"/", "b", "l", "o", "g", "/", "h", "e", "l", "l", "o">>,
               <<"/", "p", "o", "s", "t", "/", "1">>,
               <<"/", "p", "o", "s", "t", "s">>,
               <<"/", "a", "c", "c", "o", "u", "n", "t", "/", "o", "r", "d", "e", "r", "s">>,
               <<"/", "m", "y", "-", "a", "c", "c", "o", "u", "n", "t">>,
               <<"/", "m", "e", "m", "b", "e", "r", "s", "/", "a", "n", "n">>,
               <<"/", "p", "r", "o", "f", "i", "l", "e">>,
               <<"/", "s", "h", "o", "p", "/", "c", "a", "r", "t", "/", "b", "l", "o", "g">>},
   hooks : SUBSET {"[data-hook=product-page]", ".product-page",
                   "[data-hook=cart-page]", "[data-hook=blog-post]",
                   ".blog-post-page"}]

\* detectPageContext() is called
DetectPageContext(location) ==
  /\ applied = NO_CALL
  /\ applied' = [fn |-> "detectPageContext", arg |-> location,
                 value |-> PageContextOf(location)]
  /\ UNCHANGED <<programVars, eager>>

\* Variant: the limit is passed on without the cap
EffectiveLimit_Uncapped(given, limit) == IF ~given \/ limit = 0 THEN 10 ELSE limit

\* Math.min((params.limit as number) || 10, 100)
EffectiveLimit(given, limit) ==
  LET asked == IF ~given \/ limit = 0 THEN 10 ELSE limit
  IN IF asked < 100 THEN asked ELSE 100

\* The calls of the three list tools explored: limit absent or any integer up
\* to MaxLimit, and the number of items the remote query returned
ListQueries ==
  [tool : {"wix_get_blog_posts", "wix_search_products", "wix_list_products"},
   given : {TRUE}, limit : -2..MaxLimit, count : {0, 1, 5, 10, 100}]
  \cup [tool : {"wix_get_blog_posts", "wix_search_products", "wix_list_products"},
        given : {FALSE}, limit : {0}, count : {0, 1, 5, 10, 100}]

\* execute() of a list tool, from its limit parameter to the limit it passes
\* to the remote query and, from the items returned, to hasMore, which
\* wix_search_products does not report
ListQuery(query) ==
  /\ applied = NO_CALL
  /\ LET limit == EffectiveLimit(query.given, query.limit)
     IN applied' = [fn |-> "execute", arg |-> query,
                    value |-> IF query.tool = "wix_search_products"
                              THEN [limit |-> limit]
                              ELSE [limit |-> limit,
                                    hasMore |-> query.count = limit]]
  /\ UNCHANGED <<programVars, eager>>

PureNext ==
  \/ \E structure \in Structures : DetectInstalledApps(structure)
  \/ \E location \in Locations : DetectPageContext(location)
  \/ \E query \in ListQueries : ListQuery(query)

PureSpec == Init /\ [][PureNext]_vars

\* ------------------------------------------------ registration, explored wide
\* Every descriptor detectInstalledAppsFromAPI derives from the answers
\* explored and every context detectPageContext derives from the pages
\* explored, with a registry that accepts every name or refuses one.  The
\* agent calls no tool; the host injects one kind of token.
RegApps == {InstalledAppsOf(structure) : structure \in Structures}
RegContexts == {PageContextOf(location) : location \in Locations}
RegRefusals == {{}, {"wix_get_member_info"}}

RegNext ==
  \/ \E token \in ToolTokens : Inject(token)
  \/ DeferredInit
  \/ InitWebMCP
  \/ \E p \in Procs : Timeout(p)
  \/ \E p \in Procs : Resume(p)
  \/ \E p \in Procs : Rejected(p)
  \/ \E ctx \in RegContexts, bad \in RegRefusals : DetectionRejected(ctx, bad)
  \/ \E p \in Procs : RemoteReturns(p, OUT_VALUE)
  \/ \E out \in RemoteOutcomes, apps \in RegApps, ctx \in RegContexts,
        bad \in RegRefusals :
       DetectionReturns(out, apps, ctx, bad)
  \/ Tick

RegSpec == Init /\ [][RegNext]_vars

\* ===================================================== the eager variant
\* webmcp-ecom.ts builds its client inside initWebMCP, publishes the client's
\* injector on window and registers all eleven tools without detection.
EAGER_TOOLS == ToolsFor(ALL_APPS, NO_CONTEXT)
EagerRefusals == {{}} \cup {{name} : name \in Range(EAGER_TOOLS)}

\* initWebMCP() of the eager variant, which has no await of its own: without
\* navigator.modelContext it returns; otherwise it builds the client, sets
\* window.injectAccessTokenFunction and calls registerTool for each tool,
\* none of them in try/catch, so the first that throws ends it
EagerInit(e, bad) ==
  IF ~hasModelContext
  THEN [e EXCEPT !.init = "unsupported"]
  ELSE LET refused == {i \in 1..Len(EAGER_TOOLS) : EAGER_TOOLS[i] \in bad}
           last == IF refused = {} THEN Len(EAGER_TOOLS)
                   ELSE (CHOOSE i \in refused : \A j \in refused : i <= j) - 1
       IN [e EXCEPT !.window = "injector",
                    !.tools = SubSeq(EAGER_TOOLS, 1, last),
                    !.init = IF refused = {} THEN "done" ELSE "threw"]

\* Variant: initWebMCP is called at evaluation whatever the readyState
Deferred_Never(state) == FALSE

\* if (document.readyState === 'loading')
Deferred(state) == state = "loading"

\* The browser evaluates the module: the bootstrap trigger, then the export
\* statement, which reads window.injectAccessTokenFunction once
EvaluateModule(state, bad) ==
  /\ eager.exported = "unset"
  /\ LET e == [eager EXCEPT !.evaluatedAt = state]
         r == IF Deferred(state) THEN [e EXCEPT !.listening = TRUE]
              ELSE EagerInit(e, bad)
     IN eager' = [r EXCEPT !.exported = r.window]
  /\ UNCHANGED <<programVars, applied>>

\* DOMContentLoaded fires and the listener calls initWebMCP
DOMContentLoaded(bad) ==
  /\ eager.listening
  /\ eager' = EagerInit([eager EXCEPT !.listening = FALSE], bad)
  /\ UNCHANGED <<programVars, applied>>

\* The host calls the injector it found on window or in the module's exports
EagerInject(via, token) ==
  /\ eager.injections < MaxInjects
  /\ \/ via = "window" /\ eager.window = "injector"
     \/ via = "export" /\ eager.exported = "injector"
  /\ eager' = [eager EXCEPT !.token = token, !.injections = @ + 1]
  /\ UNCHANGED <<programVars, applied>>

EagerNext ==
  \/ \E state \in {"loading", "interactive", "complete"}, bad \in EagerRefusals :
       EvaluateModule(state, bad)
  \/ \E bad \in EagerRefusals : DOMContentLoaded(bad)
  \/ \E via \in {"window", "export"}, token \in Tokens : EagerInject(via, token)

EagerSpec == Init /\ [][EagerNext]_vars

\* ------------------------------------------------------------------ claims
Listed == Range(authReadyResolvers)
Pending == {p \in Procs : promise[p] = "pending"}

\* C1: an injection made while the client exists forwards its token into the
\* client, sets authReady and resolves every waiter that was pending, each
\* timer cleared, and leaves the waiter array empty.
C1_InjectWithClientReleasesAll ==
  [][(ev'.op = "inject" /\ wixClient # NULL_CLIENT)
       => /\ clientToken' = ev'.token
          /\ authReady'
          /\ authReadyResolvers' = <<>>
          /\ \A p \in Pending : promise'[p] = "resolved" /\ timeout'[p] = NoTimer]_vars

\* One injection with the client in place has just released two waiters
C1_Witness ==
  /\ ev.op = "inject" /\ ev.hadClient
  /\ Cardinality(ev.released) >= 2
  /\ authReadyResolvers = <<>>

\* C2 (as claimed): the getWixClient() call that builds the client, made after
\* some token was injected, forwards the stored token, sets authReady and
\* resolves every pending waiter, leaving the array empty, for every token.
C2_ConstructionForwardsStoredToken ==
  [][(wixClient = NULL_CLIENT /\ wixClient' # NULL_CLIENT
        /\ pendingAccessToken # NULL_TOKEN)
       => /\ clientToken' = pendingAccessToken
          /\ authReady'
          /\ authReadyResolvers' = <<>>
          /\ \A p \in Pending : promise'[p] = "resolved"]_vars

\* C3: an injection made while no client exists stores its token, replacing
\* the one stored before, and changes nothing else of the credential state.
C3_InjectWithoutClientOnlyStores ==
  [][(ev'.op = "inject" /\ wixClient = NULL_CLIENT)
       => /\ pendingAccessToken' = ev'.token
          /\ UNCHANGED <<wixClient, clientsCreated, clientToken, authReady,
                         authReadyResolvers, promise, timeout, error>>
          /\ ev'.released = {}]_vars

\* A second injection before construction, with a waiter queued
C3_Witness ==
  /\ ev.op = "inject" /\ ~ev.hadClient
  /\ injections = 2
  /\ pendingAccessToken = ev.token
  /\ wixClient = NULL_CLIENT /\ ~authReady
  /\ Pending # {}

\* C4 (as claimed): in a run where the host injects, non-empty tokens only,
\* every waiting caller eventually observes the ready state, once, and the
\* first token forwarded is the one injected last at that moment.
C4_EveryWaiterObservesReady ==
  ((<>(injections > 0)) /\ [](lastInjected # ""))
    => /\ \A p \in Procs : (promise[p] = "pending") ~> (observed[p] = 1)
       /\ [](\A p \in Procs : observed[p] <= 1)
       /\ [](authReady => firstForwarded = firstReadyLast)

\* C4 (amended): every waiting caller is eventually settled, by observing the
\* ready state once or by the rejection of its own timer; a settled promise
\* never changes; a caller observes ready only when the gate is ready; the
\* first token forwarded is the one injected last at that moment.
C4_EveryWaiterSettled ==
  /\ \A p \in Procs :
       []<>(promise[p] # "pending" /\ (promise[p] = "resolved" => observed[p] = 1))
  /\ [][\A p \in Procs :
         /\ promise[p] \in {"resolved", "rejected"} => promise'[p] = promise[p]
         /\ observed'[p] >= observed[p]]_vars
  /\ [](\A p \in Procs : /\ observed[p] <= 1
                         /\ observed[p] = 1 => authReady /\ promise[p] = "resolved"
                         /\ promise[p] = "resolved" => authReady)
  /\ [](authReady => firstForwarded = firstReadyLast)

\* One caller was rejected by its timer, a later one observed ready
C4_Witness ==
  /\ \E p \in Procs : promise[p] = "rejected"
  /\ \E q \in Procs : observed[q] = 1 /\ calledAt[q] > 0
  /\ authReady /\ firstForwarded = firstReadyLast /\ injections = 2

\* C5: a pending call is rejected only by its own timer, exactly
\* AUTH_TIMEOUT_MS after the call, with the gate still not ready and with the
\* timeout message; no call stays pending past that moment.
C5_TimeoutRejectsAfterWindow ==
  /\ [](\A p \in Pending : now <= calledAt[p] + AUTH_TIMEOUT_MS /\ ~authReady)
  /\ [][\A p \in Pending :
          promise'[p] = "rejected"
            => /\ ev'.op = "timeout" /\ ev'.who = p
               /\ now = calledAt[p] + AUTH_TIMEOUT_MS
               /\ ~authReady
               /\ error'[p] = AUTH_TIMEOUT_MESSAGE]_vars
  /\ [][\A p \in Pending :
          (ev'.op = "timeout" /\ ev'.who = p) => promise'[p] = "rejected"]_vars

\* A call has just been rejected, 15 s after it was made
C5_Witness ==
  /\ ev.op = "timeout"
  /\ promise[ev.who] = "rejected"
  /\ error[ev.who] = AUTH_TIMEOUT_MESSAGE
  /\ now = calledAt[ev.who] + 15000

\* C6 (as claimed): the waiter array holds no closure of a rejected call.
C6_NoRejectedWaiterListed ==
  \A p \in Procs : promise[p] = "rejected" => WrapperFn(p) \notin Listed

\* C7: the timer of one caller leaves every other caller as it was: its
\* promise, its timer, its closure in the array, its position and its result;
\* and every pending caller keeps its closure listed and its timer armed, so
\* that the next injection releases it.
C7_TimeoutAffectsOnlyItsCaller ==
  /\ [][ev'.op = "timeout"
          => \A q \in Procs \ {ev'.who} :
               /\ promise'[q] = promise[q]
               /\ timeout'[q] = timeout[q]
               /\ pc'[q] = pc[q]
               /\ result'[q] = result[q]
               /\ WrapperFn(q) \in Listed => WrapperFn(q) \in Range(authReadyResolvers')]_vars
  /\ [](\A q \in Pending : WrapperFn(q) \in Listed /\ timeout[q] # NoTimer)

\* One caller has just timed out while another is still waiting
C7_Witness ==
  /\ ev.op = "timeout"
  /\ promise[ev.who] = "rejected"
  /\ \E q \in Procs \ {ev.who} :
       promise[q] = "pending" /\ timeout[q] > now /\ WrapperFn(q) \in Listed

\* C8: no step takes authReady from true to false.
C8_AuthReadyMonotonic ==
  [][authReady => authReady']_vars

\* The host re-injected, with another token, after the gate was ready
C8_Witness ==
  /\ authReady
  /\ ev.op = "inject" /\ ev.hadClient
  /\ clientToken # firstForwarded

\* C9: authReady holds exactly when the existing client's injector has been
\* given a token.
C9_ReadyIffTokenForwarded ==
  /\ authReady <=> clientToken # NULL_TOKEN
  /\ authReady => wixClient # NULL_CLIENT
  /\ wixClient = NULL_CLIENT => clientToken = NULL_TOKEN

\* Ready through the hand-over of the pending token at construction
C9_Witness ==
  /\ authReady
  /\ ev.op = "deferredInit"
  /\ clientToken = pendingAccessToken
  /\ injections > 0

\* C10: createClient runs at most once; every remote call was issued on the
\* one shared client; a continuation that issues a remote call through
\* getWixClient() finds the client already built.
C10_ClientIsSingleton ==
  /\ [](clientsCreated <= 1)
  /\ [](wixClient # NULL_CLIENT => wixClient = clientsCreated)
  /\ [](\A p \in Procs :
          observed[p] = 1 => usedClient[p] = wixClient /\ wixClient # NULL_CLIENT)
  /\ [][ev'.op = "resume" => wixClient # NULL_CLIENT /\ wixClient' = wixClient]_vars

\* The deferred initializer, detection and a tool handler all got the client
C10_Witness ==
  /\ clientsCreated = 1
  /\ \A p \in Procs : observed[p] = 1 /\ usedClient[p] = wixClient

\* C11: a tool handler issues its remote call only in the continuation of its
\* own resolved waitForAuth, so only while authReady holds, on the client
\* that holds a token; every tool but wix_get_current_page goes through the
\* gate before it returns; wix_get_current_page never touches the gate or the
\* client and returns a success at once.
C11_RemoteCallOnlyAfterGate ==
  /\ [](\A h \in Handlers :
          /\ pc[h] = "calling"
               => /\ authReady /\ readyAtCall[h] /\ clientToken # NULL_TOKEN
                  /\ promise[h] = "resolved" /\ observed[h] = 1
          /\ usedClient[h] # NULL_CLIENT => readyAtCall[h]
          /\ (toolOf[h] \notin {NO_TOOL, "wix_get_current_page"})
               => /\ promise[h] # "none"
                  /\ pc[h] = "done" => \/ promise[h] = "rejected"
                                       \/ observed[h] = 1 /\ authReady
          /\ toolOf[h] = "wix_get_current_page"
               => /\ promise[h] = "none" /\ timeout[h] = NoTimer
                  /\ usedClient[h] = NULL_CLIENT
                  /\ pc[h] = "done" /\ result[h] = Success("data"))
  /\ [][\A h \in Handlers :
          (pc[h] # "calling" /\ pc'[h] = "calling")
            => authReady /\ authReady' /\ promise[h] = "resolved"]_vars

\* The cart tool was called before any token, waited, and is now issuing its
\* remote call on the ready client
C11_Witness ==
  \E h \in Handlers :
    /\ toolOf[h] = "wix_add_to_cart" /\ pc[h] = "calling"
    /\ readyAtCall[h] /\ usedClient[h] = wixClient
    /\ calledAt[h] < now

\* C12: a blog tool is registered only if the descriptor has hasBlog, the
\* member tool only if it has hasMembers, a product or cart tool only if it
\* has hasStores.
C12_ToolsRespectDescriptor ==
  \A t \in Range(registeredTools) :
    /\ t \in {"wix_get_blog_posts", "wix_get_blog_post"} => installedApps.hasBlog
    /\ t = "wix_get_member_info" => installedApps.hasMembers
    /\ t \in {"wix_search_products", "wix_get_product", "wix_list_products",
              "wix_add_to_cart", "wix_get_cart", "wix_get_cart_totals"}
         => installedApps.hasStores

\* A site with a blog and members but no store: the blog and member tools
\* are registered, no commerce tool is
C12_Witness ==
  /\ installedApps = [hasStores |-> FALSE, hasBlog |-> TRUE, hasMembers |-> TRUE]
  /\ {"wix_get_blog_posts", "wix_get_blog_post", "wix_get_member_info"}
       \subseteq Range(registeredTools)
  /\ Range(registeredTools) \cap Range(STORES_TOOLS) = {}

Finished == pc[DETECT] \in {"done", "threw"}
Accepted == Range(BASELINE_TOOLS) \ registerFailed

\* C13: when detection fails, by the timeout of its gate wait or by the
\* rejection of its site-structure query, Error or not, it returns the
\* all-false descriptor; initWebMCP runs to its end, registers the baseline
\* tools the registry accepts and no other tool.
C13_DetectionFailsSoft ==
  (Finished /\ ~outcome[DETECT].ok)
    => /\ installedApps = NO_APPS
       /\ pc[DETECT] = "done"
       /\ Range(registeredTools) = Accepted
       /\ registerFailed \subseteq Range(BASELINE_TOOLS)

\* The token arrived, the query was rejected: only the baseline is registered
C13_Witness ==
  /\ pc[DETECT] = "done" /\ authReady /\ observed[DETECT] = 1
  /\ outcome[DETECT] = Thrown(TRUE, REMOTE_ERROR)
  /\ installedApps = NO_APPS
  /\ registeredTools = BASELINE_TOOLS

Code404 == <<"4", "0", "4">>

\* C15: whatever tool is called and however its gate wait and its remote call
\* end, the call ends with a result object, either a success with a payload
\* and no error or a failure with an error message and no payload; a call
\* that has not ended has produced nothing, and no call ends otherwise.
C15_HandlerAlwaysReturnsResult ==
  \A h \in Handlers :
    /\ pc[h] \in {"idle", "waiting", "calling", "done"}
    /\ pc[h] # "done" => result[h] = NO_RESULT
    /\ pc[h] = "done"
         => /\ result[h].kind \in {"success", "failure"}
            /\ result[h].kind = "success"
                 => result[h].payload # "none" /\ result[h].error = NO_ERROR
            /\ result[h].kind = "failure"
                 => result[h].payload = "none" /\ result[h].error # NO_ERROR

\* The remote call of wix_add_to_cart was rejected with a value that is no
\* Error: the call ended with success: false and 'Unknown error'
C15_Witness ==
  \E h \in Handlers :
    /\ toolOf[h] = "wix_add_to_cart" /\ pc[h] = "done"
    /\ outcome[h] = Thrown(FALSE, THROWN_TEXT)
    /\ result[h] = Failure(UNKNOWN_ERROR)

\* C16: when the remote call of wix_get_cart fails with an Error whose message
\* contains "404" the call returns the successful empty cart, and for every
\* other failure success: false with the Error's message, or 'Unknown error'
\* for a value that is no Error; wix_get_cart_totals likewise, with the
\* all-zero totals.
C16_CartNotFoundIsEmpty ==
  \A h \in Handlers :
    (pc[h] = "done" /\ ~outcome[h].ok
       /\ toolOf[h] \in {"wix_get_cart", "wix_get_cart_totals"})
      => IF outcome[h].isError /\ Includes(Chars(outcome[h].message), Code404)
         THEN result[h] = Success(IF toolOf[h] = "wix_get_cart"
                                  THEN "emptyCart" ELSE "zeroTotals")
         ELSE result[h] = Failure(IF outcome[h].isError
                                  THEN outcome[h].message ELSE UNKNOWN_ERROR)

\* The totals estimate failed with a "404": the call returned the zero totals
C16_Witness ==
  \E h \in Handlers :
    /\ toolOf[h] = "wix_get_cart_totals" /\ pc[h] = "done"
    /\ outcome[h] = Thrown(TRUE, NOT_FOUND_ERROR)
    /\ result[h] = Success("zeroTotals")

\* C17: for every tool but the two cart tools a "404" failure yields success:
\* false, and wix_get_product and wix_get_blog_post also return success: false
\* when the response holds no item; only the cart tools return an empty cart
\* or zero totals.
C17_NotFoundIsErrorElsewhere ==
  \A h \in Handlers :
    pc[h] = "done"
      => /\ (toolOf[h] \notin {"wix_get_cart", "wix_get_cart_totals"}
               /\ ~outcome[h].ok /\ outcome[h].isError
               /\ Includes(Chars(outcome[h].message), Code404))
              => result[h] = Failure(outcome[h].message)
         /\ (toolOf[h] = "wix_get_product" /\ outcome[h].empty)
              => result[h] = Failure(PRODUCT_NOT_FOUND)
         /\ (toolOf[h] = "wix_get_blog_post" /\ outcome[h].empty)
              => result[h] = Failure(POST_NOT_FOUND)
         /\ result[h].payload \in {"emptyCart", "zeroTotals"}
              => toolOf[h] \in {"wix_get_cart", "wix_get_cart_totals"}

\* The post asked for is not in the response: success: false
C17_Witness ==
  \E h \in Handlers :
    /\ toolOf[h] = "wix_get_blog_post" /\ pc[h] = "done"
    /\ outcome[h] = OUT_EMPTY
    /\ result[h] = Failure(POST_NOT_FOUND)

\* C18: in a run without any injection every call of a tool that waits on the
\* gate ends, no sooner than AUTH_TIMEOUT_MS after it was made, with success:
\* false and the timeout message; none stays pending and none succeeds.
C18_NoTokenEveryGatedCallTimesOut ==
  /\ ([](injections = 0))
       => \A h \in Handlers : []<>(pc[h] \in {"idle", "done"})
  /\ [](injections = 0
          => \A h \in Handlers :
               /\ pc[h] # "calling"
               /\ (pc[h] = "done" /\ toolOf[h] # "wix_get_current_page")
                    => /\ result[h] = Failure(AUTH_TIMEOUT_MESSAGE)
                       /\ now >= calledAt[h] + AUTH_TIMEOUT_MS)

\* No token was ever injected: the site-structure tool, registered after
\* detection timed out, has ended with the timeout message
C18_Witness ==
  /\ injections = 0
  /\ \E h \in Handlers :
       /\ toolOf[h] = "wix_get_site_structure" /\ pc[h] = "done"
       /\ result[h] = Failure(AUTH_TIMEOUT_MESSAGE)
       /\ now = calledAt[h] + AUTH_TIMEOUT_MS

\* C19: initWebMCP is entered at most once and never re-entered or undone; no
\* name occurs twice in the registry; the registry only grows, by appending,
\* and only in the task in which that one bootstrap makes its registerTool
\* calls.
C19_BootstrapOnceRegistryAppendOnly ==
  /\ [](\A i, j \in 1..Len(registeredTools) :
          registeredTools[i] = registeredTools[j] => i = j)
  /\ [][/\ Len(registeredTools') >= Len(registeredTools)
        /\ SubSeq(registeredTools', 1, Len(registeredTools)) = registeredTools
        /\ registeredTools' # registeredTools
             => pc[DETECT] \in {"waiting", "calling"} /\ Finished'
        /\ pc[DETECT] \notin {"idle", "unsupported"}
             => pc'[DETECT] \notin {"idle", "unsupported"}
        /\ pc[DETECT] = "calling" => pc'[DETECT] # "waiting"
        /\ pc[DETECT] \in {"done", "threw", "unsupported"}
             => pc'[DETECT] = pc[DETECT]]_vars

\* Bootstrap has run on a site with every app: eleven names, each once
C19_Witness ==
  /\ pc[DETECT] = "done"
  /\ Len(registeredTools) = Cardinality(Range(registeredTools))
  /\ Range(registeredTools) = Range(BASELINE_TOOLS)
       \cup {"wix_get_blog_posts", "wix_get_blog_post", "wix_get_member_info"}
       \cup Range(STORES_TOOLS)

\* C20: detection issues its site-structure query at most once, and only in
\* the continuation of its resolved gate wait, with the gate ready; nothing
\* is registered, and no registerTool call has been made, before detection
\* returned; when the registerTool calls are made, either the gate is ready
\* and the one query has been issued, or detection's own wait was rejected by
\* its timer, AUTH_TIMEOUT_MS after it began, and no query was issued.
C20_RegistrationAfterDetection ==
  /\ observed[DETECT] <= 1
  /\ pc[DETECT] = "calling"
       => /\ observed[DETECT] = 1 /\ promise[DETECT] = "resolved"
          /\ readyAtCall[DETECT] /\ authReady
  /\ ~Finished => registeredTools = <<>> /\ registerFailed = {}
  /\ Finished
       => \/ /\ promise[DETECT] = "resolved" /\ authReady
             /\ observed[DETECT] = 1 /\ usedClient[DETECT] # NULL_CLIENT
          \/ /\ promise[DETECT] = "rejected" /\ ~outcome[DETECT].ok
             /\ error[DETECT] = AUTH_TIMEOUT_MESSAGE
             /\ observed[DETECT] = 0 /\ usedClient[DETECT] = NULL_CLIENT
             /\ now >= calledAt[DETECT] + AUTH_TIMEOUT_MS

\* Detection waited from the start, the token came, the one query was
\* answered and the tools were registered
C20_Witness ==
  /\ pc[DETECT] = "done" /\ calledAt[DETECT] = 0
  /\ observed[DETECT] = 1 /\ outcome[DETECT] = OUT_VALUE
  /\ now > 0 /\ now < AUTH_TIMEOUT_MS
  /\ Len(registeredTools) > 2

\* ---------------------------------------------------------------------- C21
\* C21: each capability flag of the descriptor is true exactly when the
\* known identifier of its app is the applicationId of some page, or some
\* prefix contains one of its keywords, upper and lower case taken alike
C21_FlagsFollowIdsAndPrefixes ==
  applied.fn = "detectInstalledAppsFromAPI" =>
    LET st == applied.arg
        small == <<"a", "b", "c", "d", "e", "f", "g", "h", "i", "j", "k", "l", "m",
                   "n", "o", "p", "q", "r", "s", "t", "u", "v", "w", "x", "y", "z">>
        capital == <<"A", "B", "C", "D", "E", "F", "G", "H", "I", "J", "K", "L", "M",
                     "N", "O", "P", "Q", "R", "S", "T", "U", "V", "W", "X", "Y", "Z">>
        Upper(k) == capital[CHOOSE i \in 1..26 : small[i] = k]
        Spells(str, i, kw) ==
          \A j \in 1..Len(kw) : str[i + j - 1] \in {kw[j], Upper(kw[j])}
        Contains(str, kw) ==
          \E i \in 1..(Len(str) - Len(kw) + 1) : Spells(str, i, kw)
        OnAPage(id) == \E i \in 1..Len(st.pages) : st.pages[i] = id
        InAPrefix(kws) ==
          /\ st.hasPrefixes
          /\ \E i \in 1..Len(st.prefixes) : \E kw \in kws : Contains(st.prefixes[i], kw)
    IN /\ applied.value.hasStores <=>
            \/ OnAPage(WIX_STORES_APP_ID)
            \/ InAPrefix({<<"p", "r", "o", "d", "u", "c", "t">>, <<"s", "h", "o", "p">>, <<"s", "t", "o", "r", "e">>, <<"c", "a", "r", "t">>})
       /\ applied.value.hasBlog <=>
            \/ OnAPage(WIX_BLOG_APP_ID)
            \/ InAPrefix({<<"b", "l", "o", "g">>, <<"p", "o", "s", "t">>})
       /\ applied.value.hasMembers <=>
            \/ OnAPage(WIX_MEMBERS_APP_ID)
            \/ InAPrefix({<<"a", "c", "c", "o", "u", "n", "t">>, <<"m", "e", "m", "b", "e", "r">>, <<"p", "r", "o", "f", "i", "l", "e">>})

\* The stores app has a page and the one prefix is /shop-now: hasStores
C21_Witness ==
  /\ applied.fn = "detectInstalledAppsFromAPI"
  /\ applied.arg.pages = <<WIX_STORES_APP_ID>>
  /\ applied.arg.prefixes = <<<<"/", "s", "h", "o", "p", "-", "n", "o", "w">>>>
  /\ applied.value = [hasStores |-> TRUE, hasBlog |-> FALSE, hasMembers |-> FALSE]

\* ---------------------------------------------------------------------- C22
\* C22: detectPageContext returns four flags for every page, each settled by
\* the pathname, upper and lower case taken alike, and by the hooks of the
\* document alone; the call leaves the gate, the credentials and every caller
\* where they were and issues no remote call; for /product/widget-123
\* without hooks it returns isProductPage alone
C22_PageContextIsPureAndTotal ==
  [][applied'.fn = "detectPageContext" /\ applied.fn = "none" =>
       LET loc == applied'.arg
           flags == applied'.value
           Same(c, k) == Lower(c) = k
           Contains(kw) ==
             \E i \in 1..(Len(loc.pathname) - Len(kw) + 1) :
               \A j \in 1..Len(kw) : Same(loc.pathname[i + j - 1], kw[j])
           Hook(h) == h \in loc.hooks
       IN /\ flags \in [isProductPage : BOOLEAN, isCartPage : BOOLEAN,
                        isBlogPage : BOOLEAN, isMemberArea : BOOLEAN]
          /\ flags.isProductPage <=>
               \/ Contains(<<"/", "p", "r", "o", "d", "u", "c", "t", "/">>) \/ Contains(<<"/", "p", "r", "o", "d", "u", "c", "t", "-", "p", "a", "g", "e", "/">>)
               \/ Hook("[data-hook=product-page]") \/ Hook(".product-page")
          /\ flags.isCartPage <=>
               \/ Contains(<<"/", "c", "a", "r", "t">>) \/ Contains(<<"/", "c", "h", "e", "c", "k", "o", "u", "t">>)
               \/ Hook("[data-hook=cart-page]")
          /\ flags.isBlogPage <=>
               \/ Contains(<<"/", "b", "l", "o", "g">>) \/ Contains(<<"/", "p", "o", "s", "t", "/">>)
               \/ Hook("[data-hook=blog-post]") \/ Hook(".blog-post-page")
          /\ flags.isMemberArea <=>
               \/ Contains(<<"/", "a", "c", "c", "o", "u", "n", "t">>) \/ Contains(<<"/", "m", "y", "-", "a", "c", "c", "o", "u", "n", "t">>)
               \/ Contains(<<"/", "m", "e", "m", "b", "e", "r", "s">>) \/ Contains(<<"/", "p", "r", "o", "f", "i", "l", "e">>)
          /\ (loc.pathname = <<"/", "p", "r", "o", "d", "u", "c", "t", "/", "w", "i", "d", "g", "e", "t", "-", "1", "2", "3">> /\ loc.hooks = {}) =>
               flags = [isProductPage |-> TRUE, isCartPage |-> FALSE,
                        isBlogPage |-> FALSE, isMemberArea |-> FALSE]
          /\ UNCHANGED <<gateVars, pc, callVars, hostVars, registeredTools>>]_vars

\* /product/widget-123 without hooks: a product page and nothing else
C22_Witness ==
  /\ applied.fn = "detectPageContext"
  /\ applied.arg.pathname = <<"/", "p", "r", "o", "d", "u", "c", "t", "/", "w", "i", "d", "g", "e", "t", "-", "1", "2", "3">>
  /\ applied.arg.hooks = {}
  /\ applied.value.isProductPage
  /\ authReady = FALSE /\ wixClient = NULL_CLIENT

\* ---------------------------------------------------------------------- C23
\* C23: while authReady is true the array of waiters is empty; a waitForAuth
\* call made then returns a resolved promise, pushes nothing and arms no
\* timer; an injection made then hands the token to the client, leaves
\* authReady true and resolves no promise
C23_ReadyGateIsIdempotent ==
  [][/\ authReady => authReadyResolvers = <<>>
     /\ authReady' => authReadyResolvers' = <<>>
     /\ \A p \in Procs :
          authReady /\ calledAt[p] = NoTimer /\ calledAt'[p] # NoTimer =>
            /\ promise'[p] = "resolved"
            /\ timeout' = timeout
            /\ authReadyResolvers' = <<>>
     /\ authReady /\ injections' = injections + 1 =>
          /\ clientToken' = lastInjected'
          /\ authReady'
          /\ promise' = promise
          /\ ev'.released = {}]_vars

\* A token was stored before the client existed, so the deferred initializer
\* opened the gate and then called waitForAuth; a second, different token is
\* injected afterwards
C23_Witness ==
  /\ Truthy(pendingAccessToken) /\ authReady
  /\ promise[SELFTEST] = "resolved" /\ timeout[SELFTEST] = NoTimer
  /\ injections = 2 /\ ev.op = "inject" /\ ev.hadClient
  /\ lastInjected # pendingAccessToken /\ clientToken = lastInjected
  /\ authReadyResolvers = <<>>

\* ---------------------------------------------------------------------- C24
\* C24, as stated: once its wait on the gate has resolved, wix_add_to_cart
\* answers an options text that is not parsable JSON with the invalid-options
\* failure and issues no addToCurrentCart call; with options absent or
\* parsable it issues exactly one call, with quantity 1 when none was given
C24_UnparsableOptionsRejected ==
  \A h \in Handlers :
    toolOf[h] = "wix_add_to_cart" /\ pc[h] = "done" /\ promise[h] = "resolved" =>
      /\ params[h] \in {"", "malformed"} =>
           result[h] = Failure(INVALID_OPTIONS) /\ sent[h].calls = 0
      /\ params[h] \in {NO_OPTIONS, "json"} =>
           /\ sent[h].calls = 1
           /\ quantity[h] = NO_QUANTITY => sent[h].quantity = 1

\* C24, amended: the invalid-options failure without a call is the answer to
\* a non-empty options text that is not parsable JSON; with options absent,
\* empty or parsable exactly one addToCurrentCart call is issued, with
\* quantity 1 when none was given and with a given non-zero quantity as it
\* came; no call is issued twice
C24_NonEmptyUnparsableOptionsRejected ==
  \A h \in Handlers :
    toolOf[h] = "wix_add_to_cart" =>
      /\ sent[h].calls <= 1
      /\ pc[h] = "done" /\ promise[h] = "resolved" =>
           /\ params[h] = "malformed" =>
                /\ result[h] = Failure(INVALID_OPTIONS)
                /\ sent[h].calls = 0 /\ usedClient[h] = NULL_CLIENT
           /\ params[h] \in {NO_OPTIONS, "", "json"} =>
                /\ sent[h].calls = 1 /\ usedClient[h] # NULL_CLIENT
                /\ result[h] # Failure(INVALID_OPTIONS)
                /\ quantity[h] = NO_QUANTITY => sent[h].quantity = 1
                /\ quantity[h] \notin {NO_QUANTITY, 0} =>
                     sent[h].quantity = quantity[h]

\* A call with malformed options was refused after the gate opened, with no
\* remote call
C24_Witness ==
  \E h \in Handlers :
    /\ toolOf[h] = "wix_add_to_cart" /\ pc[h] = "done"
    /\ promise[h] = "resolved" /\ params[h] = "malformed"
    /\ result[h] = Failure(INVALID_OPTIONS) /\ sent[h].calls = 0

\* ---------------------------------------------------------------------- C25
\* C25: the limit the three list tools pass to the remote query is 10 when
\* the parameter is absent and never more than 100, an asked limit from 1 to
\* 100 being passed as it is; the two tools that report hasMore report it
\* exactly when as many items came back as that limit
C25_LimitDefaultsAndIsCapped ==
  applied.fn = "execute" =>
    LET q == applied.arg
        v == applied.value
    IN /\ ~q.given => v.limit = 10
       /\ v.limit <= 100
       /\ q.given /\ q.limit \in 1..100 => v.limit = q.limit
       /\ q.given /\ q.limit > 100 => v.limit = 100
       /\ q.tool \in {"wix_get_blog_posts", "wix_list_products"} =>
            (v.hasMore <=> q.count = v.limit)

\* wix_list_products asked for more than 100 and given 100 items: the
\* limit is 100 and hasMore is true
C25_Witness ==
  /\ applied.fn = "execute"
  /\ applied.arg.tool = "wix_list_products"
  /\ applied.arg.given /\ applied.arg.limit = 101 /\ applied.arg.count = 100
  /\ applied.value = [limit |-> 100, hasMore |-> TRUE]

C27_EveryRejectionConsumed ==
  \A p \in Procs :
    /\ pc[p] # "unhandled"
    /\ promise[p] = "rejected" /\ pc[p] # "waiting" =>
         result[p].kind = "failure" /\ result[p].error = AUTH_TIMEOUT_MESSAGE

C29_DescriptorComputedOnce ==
  [][/\ Finished =>
          /\ installedApps' = installedApps /\ pageContext' = pageContext
          /\ registeredTools' = registeredTools
          /\ pc'[DETECT] = pc[DETECT] /\ sent'[DETECT] = sent[DETECT]
     /\ Finished' /\ promise'[DETECT] = "rejected" =>
          /\ installedApps' = NO_APPS
          /\ registeredTools' = BASELINE_TOOLS
          /\ sent'[DETECT].calls = 0]_vars

\* Detection timed out, a token was injected afterwards and reached the
\* client: the gate is open and the registry still holds the baseline tools
C29_Witness ==
  /\ Finished /\ promise[DETECT] = "rejected"
  /\ authReady /\ Truthy(clientToken) /\ ev.op = "inject"
  /\ calledAt[DETECT] + AUTH_TIMEOUT_MS <= now
  /\ registeredTools = BASELINE_TOOLS

\* ---------------------------------------------------------------------- C30
\* C30: the export of the eager variant is the client's injector only when
\* the module was evaluated with the document past 'loading' and
\* navigator.modelContext present, initWebMCP having run within the
\* evaluation; a module evaluated while the document was loading exports
\* undefined, and the export never changes once it is set, not even when
\* initWebMCP later sets window.injectAccessTokenFunction
C30_ExportIsSnapshotAtEvaluation ==
  [][/\ eager'.exported = "injector" =>
          /\ eager'.evaluatedAt # "loading" /\ hasModelContext
          /\ eager'.init \in {"done", "threw"} /\ ~eager'.listening
     /\ eager'.evaluatedAt = "loading" => eager'.exported = "undefined"
     /\ eager.exported # "unset" => eager'.exported = eager.exported
     /\ eager'.exported = "undefined" /\ eager'.injections > eager.injections =>
          eager'.window = "injector"]_vars

\* Evaluated while loading: initWebMCP ran on DOMContentLoaded, the window
\* property is the injector and took a token, the export is undefined
C30_Witness ==
  /\ eager.evaluatedAt = "loading" /\ eager.init = "done"
  /\ eager.window = "injector" /\ eager.exported = "undefined"
  /\ Truthy(eager.token) /\ Len(eager.tools) = 11

====
